---------------------------- MODULE Spec2Model ----------------------------
(***************************************************************************)
(* Model of the WebRTC server actor (webRTCServer: run loop, mailboxes,    *)
(* onRequest) and of the fMP4 client processor of mediamtx.                *)
(*                                                                         *)
(* Five specifications share the module:                                   *)
(*   Spec      the server loop with its callers (HTTP handlers,            *)
(*             connections, API callers, close());                         *)
(*   SpecReq   onRequest as a function of one HTTP request;                *)
(*   SpecPair  onRequest applied to two requests side by side;             *)
(*   SpecFMP4  clientProcessorFMP4: run, processSegment and the video      *)
(*             track processor;                                            *)
(*   SpecNew   newWebRTCServer as a function of its arguments and of what  *)
(*             the system answers.                                         *)
(* Each specification pins the variables of the others to their idle       *)
(* values.                                                                 *)
(***************************************************************************)
EXTENDS Integers, Sequences, FiniteSets, TLC

(***************************************************************************)
(* Bounds of the model.                                                    *)
(***************************************************************************)
\* connections the server loop may create in one run
MaxConns == 2
\* tokens in a request URL ("/", "a", "/", "publish", "/", "ws" is 6)
MaxUrlLen == 6

(***************************************************************************)
(* The state: the variables of the server actor, of onRequest on one and   *)
(* on two requests, and of the fMP4 client processor.                      *)
(***************************************************************************)
VARIABLES
    ctxDone,        \* s.ctx is cancelled
    loopPc,         \* where run() is
    loopTo,         \* the caller whose req.res the loop is about to send on
    loopRes,        \* the value it is about to send
    conns,          \* s.conns
    connSt,         \* per connection: "none", "running", "finished"
    connCancelled,  \* per connection: its own ctxCancel() was called
    connUuid,       \* per connection: c.uuid
    connReq,        \* per connection: pathName and publish of its request
    wg,             \* the sync.WaitGroup of run()
    httpClosed,     \* httpServer.Shutdown() and ln.Close() were called
    muxClosed,      \* udpMuxLn and tcpMuxLn were closed
    hpc,            \* per HTTP handler: where onRequest is
    hnew,           \* per HTTP handler: the webRTCConnNewReq it built
    hauth,          \* per HTTP handler: what getPathConf answered
    hconn,          \* per HTTP handler: what newConn returned
    apc,            \* per API caller: where apiConnsList / apiConnsKick is
    areq,           \* per API caller: the call in progress
    ares,           \* per API caller: what the call returns
    closerPc,       \* where close() is
    notified,       \* history: connections whose chConnClose message was received
    kicked          \* history: per connection, close() calls made by the kick case

srvVars == <<ctxDone, loopPc, loopTo, loopRes, conns, connSt, connCancelled,
             connUuid, connReq, wg, httpClosed, muxClosed, hpc, hnew, hauth,
             hconn, apc, areq, ares, closerPc, notified, kicked>>

VARIABLES
    rq,         \* SpecReq: the request
    rstage,     \* SpecReq: "idle", "received", "served"
    rres,       \* SpecReq: what getPathConf answered, if it was called
    rws,        \* SpecReq: websocket.NewServerConn was called and succeeded
    rout,       \* SpecReq: what onRequest did
    prq,        \* SpecPair: per slot, the request
    pstage,     \* SpecPair: per slot, "idle", "received", "served"
    pres,       \* SpecPair: per slot, what getPathConf answered
    pout        \* SpecPair: per slot, what onRequest did

reqVars == <<rq, rstage, rres, rws, rout>>
pairVars == <<prq, pstage, pres, pout>>

VARIABLES
    fctxDone,           \* the context of the routine pool is cancelled
    initVideoTrack,     \* the init file has a video track
    initAudioTrack,     \* the init file has an audio track
    fpc,                \* run: "idle", "pull", "loop", "enqueue", "wait", "returned"
    ferr,               \* the error run returned
    fsegs,              \* segments pulled so far
    fnow,               \* the wall clock, which ticks when a segment arrives
    subparts,           \* the subparts of the segment being processed
    rebased,            \* their base times after line 136, as far as the loop went
    processingCount,
    waited,             \* i of the second loop of processSegment
    clockInitialized,
    startBaseTime,
    startRTC,           \* startRTC of videoProc and audioProc; 0: not set
    vqueue,             \* videoProc.queue
    vpc,                \* videoProc: "none", "recv", "signal", "returned"
    enqueued            \* history: per track processor, the subparts of the
                        \* segment being processed that were sent to its queue

fmpVars == <<fctxDone, initVideoTrack, initAudioTrack, fpc, ferr, fsegs, fnow,
             subparts, rebased, processingCount, waited, clockInitialized,
             startBaseTime, startRTC, vqueue, vpc, enqueued>>

VARIABLES
    nargs,      \* SpecNew: the arguments of newWebRTCServer and what the system
                \* answers to the calls it makes
    nstage,     \* SpecNew: "idle", "called", "returned"
    nres        \* SpecNew: what newWebRTCServer returned and left behind

newVars == <<nargs, nstage, nres>>

(***************************************************************************)
(* URL paths.  A path is a sequence of tokens: the separator "/" and words *)
(* that hold no "/".  Every suffix the code tests starts with "/", so a    *)
(* suffix test on tokens gives what strings.HasSuffix gives on the bytes.  *)
(***************************************************************************)
Slash == "/"
Words == {"a", "publish", "ws"}
Tokens == Words \cup {Slash}

RECURSIVE SeqsUpTo(_)
SeqsUpTo(n) ==
    IF n = 0 THEN {<<>>}
    ELSE LET shorter == SeqsUpTo(n - 1)
         IN  shorter \cup {Append(s, t) : s \in {x \in shorter : Len(x) = n - 1}, t \in Tokens}

\* URL.Path of a request: always starts with "/"
Urls ==
    {<<Slash>> \o s : s \in SeqsUpTo(MaxUrlLen - 1)} \cup {<<Slash, "favicon.ico">>}

HasSuffix(s, suf) ==
    /\ Len(s) >= Len(suf)
    /\ SubSeq(s, Len(s) - Len(suf) + 1, Len(s)) = suf

\* s[:len(s)-len(suf)]
CutSuffix(s, suf) == SubSeq(s, 1, Len(s) - Len(suf))

TrimSuffix(s, suf) == IF HasSuffix(s, suf) THEN CutSuffix(s, suf) ELSE s

\* ctx.Request.URL.Path[1:]
DropPrefix(url) == SubSeq(url, 2, Len(url))

SufPublishWs == <<Slash, "publish", Slash, "ws">>
SufPublish == <<Slash, "publish">>
SufWs == <<Slash, "ws">>

(***************************************************************************)
(* onRequest, first half: the switch on the URL (dir, fname, publish).     *)
(* kind "route" goes on to getPathConf; "redirect" and "ignore" return.    *)
(***************************************************************************)
Route(kind, dir, fname, publish) ==
    [kind |-> kind, dir |-> dir, fname |-> fname, publish |-> publish]

\* the switch with its cases in another order: "/ws" is tested before
\* "/publish/ws"
ParseSwitchWsFirst(pa) ==
    IF HasSuffix(pa, SufWs)
        THEN Route("route", CutSuffix(pa, SufWs), "ws", FALSE)
    ELSE IF HasSuffix(pa, SufPublishWs)
        THEN Route("route", CutSuffix(pa, SufPublishWs), "publish/ws", TRUE)
    ELSE IF HasSuffix(pa, SufPublish)
        THEN Route("route", CutSuffix(pa, SufPublish), "publish", TRUE)
    ELSE IF pa = <<"favicon.ico">>
        THEN Route("ignore", pa, "", FALSE)
    ELSE IF ~HasSuffix(pa, <<Slash>>)
        THEN Route("redirect", pa, "", FALSE)
    ELSE Route("route", pa, "", FALSE)

ParseSwitch(pa) ==
    IF HasSuffix(pa, SufPublishWs)
        THEN Route("route", CutSuffix(pa, SufPublishWs), "publish/ws", TRUE)
    ELSE IF HasSuffix(pa, SufPublish)
        THEN Route("route", CutSuffix(pa, SufPublish), "publish", TRUE)
    ELSE IF HasSuffix(pa, SufWs)
        THEN Route("route", CutSuffix(pa, SufWs), "ws", FALSE)
    ELSE IF pa = <<"favicon.ico">>
        THEN Route("ignore", pa, "", FALSE)
    ELSE IF ~HasSuffix(pa, <<Slash>>)
        THEN Route("redirect", pa, "", FALSE)
    ELSE Route("route", pa, "", FALSE)

ParsePath(url) ==
    LET sw == ParseSwitch(DropPrefix(url))
        dir == TrimSuffix(sw.dir, <<Slash>>)
    IN  IF sw.kind # "route" THEN sw
        ELSE IF dir = <<>> THEN Route("ignore", dir, sw.fname, sw.publish)
        ELSE Route("route", dir, sw.fname, sw.publish)

(***************************************************************************)
(* Requests, results of pathManager.getPathConf, responses.                *)
(***************************************************************************)
Methods == {"GET", "OPTIONS", "POST"}

\* what getPathConf may answer: the configuration, pathErrAuth wrapping a
\* reason, or another error (the path does not resolve)
AuthReasons == {"wrong credentials", "IP not allowed"}
PathResults ==
    {[err |-> "nil", wrapped |-> ""], [err |-> "other", wrapped |-> ""]}
        \cup {[err |-> "pathErrAuth", wrapped |-> w] : w \in AuthReasons}

StatusOK == 200
StatusMovedPermanently == 301
StatusUnauthorized == 401
StatusNotFound == 404

NoPath == <<>>
NoConnReq == [present |-> FALSE, pathName |-> NoPath, publish |-> FALSE]
NoConfReq == [present |-> FALSE, name |-> NoPath, publish |-> FALSE]

CorsHeaders == {<<"Access-Control-Allow-Origin", <<"allowOrigin">> >>,
                <<"Access-Control-Allow-Credentials", <<"true">> >>}

\* what one run of onRequest did: the response written (status 0: the
\* handler wrote no header), the getPathConf request it made, the line it
\* logged, the webRTCConnNewReq it built
Outcome(status, headers, body, conf, logged, conn) ==
    [status |-> status, headers |-> CorsHeaders \cup headers, body |-> body,
     conf |-> conf, logged |-> logged, conn |-> conn]

\* ErrAuthentication.Error()
ErrAuthenticationError(message) == <<"authentication failed: ", message>>

\* variants of the pathErrAuth branch: one that never sends the challenge,
\* one that answers a request with credentials like a missing path, one
\* that writes the reason in the body
AuthFailureNoChallenge(hasCredentials, conf, wrapped) ==
    Outcome(StatusUnauthorized, {}, "", conf,
            <<"authentication error: ">> \o ErrAuthenticationError(wrapped),
            NoConnReq)

AuthFailureNotFound(hasCredentials, conf, wrapped) ==
    IF ~hasCredentials
        THEN Outcome(StatusUnauthorized,
                     {<<"WWW-Authenticate", <<"Basic realm=\"mediamtx\"">> >>},
                     "", conf, <<>>, NoConnReq)
        ELSE Outcome(StatusNotFound, {}, "", conf,
                     <<"authentication error: ">> \o ErrAuthenticationError(wrapped),
                     NoConnReq)

AuthFailureInBody(hasCredentials, conf, wrapped) ==
    IF ~hasCredentials
        THEN Outcome(StatusUnauthorized,
                     {<<"WWW-Authenticate", <<"Basic realm=\"mediamtx\"">> >>},
                     "", conf, <<>>, NoConnReq)
        ELSE Outcome(StatusUnauthorized, {}, wrapped, conf,
                     <<"authentication error: ">> \o ErrAuthenticationError(wrapped),
                     NoConnReq)

AuthFailure(hasCredentials, conf, wrapped) ==
    IF ~hasCredentials
        THEN Outcome(StatusUnauthorized,
                     {<<"WWW-Authenticate", <<"Basic realm=\"mediamtx\"">> >>},
                     "", conf, <<>>, NoConnReq)
        ELSE Outcome(StatusUnauthorized, {}, "", conf,
                     <<"authentication error: ">> \o ErrAuthenticationError(wrapped),
                     NoConnReq)

Dispatch(p, conf, wsOk) ==
    IF p.fname = ""
        THEN Outcome(StatusOK, {<<"Content-Type", <<"text/html">> >>},
                     "webrtcReadIndex", conf, <<>>, NoConnReq)
    ELSE IF p.fname = "publish"
        THEN Outcome(StatusOK, {<<"Content-Type", <<"text/html">> >>},
                     "webrtcPublishIndex", conf, <<>>, NoConnReq)
    ELSE IF ~wsOk
        THEN Outcome(0, {}, "", conf, <<>>, NoConnReq)
    ELSE Outcome(0, {}, "", conf, <<>>,
                 [present |-> TRUE, pathName |-> p.dir,
                  publish |-> (p.fname = "publish/ws")])

\* an onRequest that handles the authentication error only, and goes on
\* when the path does not resolve
OnRequestUnchecked(r, res, wsOk) ==
    IF r.method = "OPTIONS"
        THEN Outcome(StatusOK,
                     {<<"Access-Control-Allow-Methods", <<"GET, OPTIONS">> >>,
                      <<"Access-Control-Allow-Headers", <<"requested">> >>},
                     "", NoConfReq, <<>>, NoConnReq)
    ELSE IF r.method # "GET"
        THEN Outcome(0, {}, "", NoConfReq, <<>>, NoConnReq)
    ELSE LET p == ParsePath(r.url)
             conf == [present |-> TRUE, name |-> p.dir, publish |-> p.publish]
         IN  IF p.kind = "ignore"
                 THEN Outcome(0, {}, "", NoConfReq, <<>>, NoConnReq)
             ELSE IF p.kind = "redirect"
                 THEN Outcome(StatusMovedPermanently,
                              {<<"Location", <<Slash>> \o p.dir \o <<Slash>> >>},
                              "", NoConfReq, <<>>, NoConnReq)
             ELSE IF res.err = "pathErrAuth"
                 THEN AuthFailure(r.hasCredentials, conf, res.wrapped)
             ELSE Dispatch(p, conf, wsOk)

\* onRequest up to the call of newConn.  res is the answer of getPathConf
\* and wsOk whether websocket.NewServerConn succeeds; both are read only on
\* the branches that reach them.
OnRequest(r, res, wsOk) ==
    IF r.method = "OPTIONS"
        THEN Outcome(StatusOK,
                     {<<"Access-Control-Allow-Methods", <<"GET, OPTIONS">> >>,
                      <<"Access-Control-Allow-Headers", <<"requested">> >>},
                     "", NoConfReq, <<>>, NoConnReq)
    ELSE IF r.method # "GET"
        THEN Outcome(0, {}, "", NoConfReq, <<>>, NoConnReq)
    ELSE LET p == ParsePath(r.url)
             conf == [present |-> TRUE, name |-> p.dir, publish |-> p.publish]
         IN  IF p.kind = "ignore"
                 THEN Outcome(0, {}, "", NoConfReq, <<>>, NoConnReq)
             ELSE IF p.kind = "redirect"
                 THEN Outcome(StatusMovedPermanently,
                              {<<"Location", <<Slash>> \o p.dir \o <<Slash>> >>},
                              "", NoConfReq, <<>>, NoConnReq)
             ELSE IF res.err = "pathErrAuth"
                 THEN AuthFailure(r.hasCredentials, conf, res.wrapped)
             ELSE IF res.err # "nil"
                 THEN Outcome(StatusNotFound, {}, "", conf, <<>>, NoConnReq)
             ELSE Dispatch(p, conf, wsOk)

\* what the client receives
Wire(out) == [status |-> out.status, headers |-> out.headers, body |-> out.body]


(***************************************************************************)
(* onRequest on one request (SpecReq) and on two requests side by side     *)
(* (SpecPair).                                                             *)
(***************************************************************************)
Requests ==
    [method : Methods, url : Urls, hasCredentials : BOOLEAN]
NoRequest == [method |-> "", url |-> <<>>, hasCredentials |-> FALSE]
NoResult == [err |-> "", wrapped |-> ""]
NoOutcome == Outcome(0, {}, "", NoConfReq, <<>>, NoConnReq)

\* the requests of SpecPair: GET requests on a few URLs
PairUrls == {<<Slash, "a", Slash>>, <<Slash, "a", Slash, "publish">>,
             <<Slash, "a", Slash, "ws">>, <<Slash, "publish", Slash, "publish", Slash, "ws">>}
PairRequests == [method : {"GET"}, url : PairUrls, hasCredentials : BOOLEAN]
Slots == {1, 2}

ReqIdle ==
    /\ rq = NoRequest
    /\ rstage = "idle"
    /\ rres = NoResult
    /\ rws = FALSE
    /\ rout = NoOutcome

PairIdle ==
    /\ prq = [i \in Slots |-> NoRequest]
    /\ pstage = [i \in Slots |-> "idle"]
    /\ pres = [i \in Slots |-> NoResult]
    /\ pout = [i \in Slots |-> NoOutcome]

ReqInit ==
    /\ rq \in Requests
    /\ rstage = "received"
    /\ rres = NoResult
    /\ rws = FALSE
    /\ rout = NoOutcome

\* the answers onRequest reads on its way: getPathConf is called for a routed
\* GET request, websocket.NewServerConn after that for "ws" and "publish/ws"
CallsGetPathConf(r) == r.method = "GET" /\ ParsePath(r.url).kind = "route"
CallsNewServerConn(r, res) ==
    /\ CallsGetPathConf(r)
    /\ res.err = "nil"
    /\ ParsePath(r.url).fname \in {"ws", "publish/ws"}

\* onRequest runs on the request
ServeRequest ==
    /\ rstage = "received"
    /\ \E res \in PathResults, wsOk \in BOOLEAN :
          /\ rout' = OnRequest(rq, res, wsOk)
          /\ rres' = IF CallsGetPathConf(rq) THEN res ELSE NoResult
          /\ rws' = (CallsNewServerConn(rq, res) /\ wsOk)
    /\ rstage' = "served"
    /\ UNCHANGED rq
    /\ UNCHANGED <<srvVars, pairVars, fmpVars, newVars>>

PairInit ==
    /\ prq \in [Slots -> PairRequests]
    /\ pstage = [i \in Slots |-> "received"]
    /\ pres = [i \in Slots |-> NoResult]
    /\ pout = [i \in Slots |-> NoOutcome]

\* onRequest runs on the request of slot i; the websocket upgrade succeeds
ServeSlot(i) ==
    /\ pstage[i] = "received"
    /\ \E res \in PathResults :
          /\ pout' = [pout EXCEPT ![i] = OnRequest(prq[i], res, TRUE)]
          /\ pres' = [pres EXCEPT ![i] = res]
    /\ pstage' = [pstage EXCEPT ![i] = "served"]
    /\ UNCHANGED prq
    /\ UNCHANGED <<srvVars, reqVars, fmpVars, newVars>>

(***************************************************************************)
(* The server actor.                                                       *)
(***************************************************************************)
Handlers == {"h1", "h2"}
ApiCallers == {"api1"}
ConnIds == 1..MaxConns
NoConn == 0

\* uuid.New() returns a value no other connection has: the n-th connection
\* gets <<"uuid", n>>.  An API client may ask to kick any of them and
\* <<"uuid", 0>>, which no connection ever has.
NewUuid(n) == <<"uuid", n>>
UUIDs == {NewUuid(n) : n \in 0..MaxConns}
NoUuid == <<"none", 0>>

\* requests the HTTP handlers of the server model receive
SrvUrls == {<<Slash, "a", Slash>>, <<Slash, "a", Slash, "ws">>}
SrvRequests ==
    {[method |-> "GET", url |-> u, hasCredentials |-> FALSE] : u \in SrvUrls}
\* what onRequest does with them, for each answer of getPathConf and of
\* websocket.NewServerConn
SrvOutcomes ==
    {[err |-> res.err, out |-> OnRequest(r, res, wsOk)] :
        r \in SrvRequests, res \in PathResults, wsOk \in BOOLEAN}

NoReply == [conn |-> NoConn, err |-> "", items |-> {}]
NoCall ==
    [op |-> "", id |-> NoUuid, afterClose |-> FALSE, afterNotify |-> FALSE,
     afterKick |-> FALSE]

SrvInit ==
    /\ ctxDone = FALSE
    /\ loopPc = "select"
    /\ loopTo = ""
    /\ loopRes = NoReply
    /\ conns = {}
    /\ connSt = [c \in ConnIds |-> "none"]
    /\ connCancelled = [c \in ConnIds |-> FALSE]
    /\ connUuid = [c \in ConnIds |-> NoUuid]
    /\ connReq = [c \in ConnIds |-> NoConnReq]
    /\ wg = 0
    /\ httpClosed = FALSE
    /\ muxClosed = FALSE
    /\ hpc = [h \in Handlers |-> "idle"]
    /\ hnew = [h \in Handlers |-> NoConnReq]
    /\ hauth = [h \in Handlers |-> ""]
    /\ hconn = [h \in Handlers |-> NoConn]
    /\ apc = [a \in ApiCallers |-> "idle"]
    /\ areq = [a \in ApiCallers |-> NoCall]
    /\ ares = [a \in ApiCallers |-> NoReply]
    /\ closerPc = "idle"
    /\ notified = {}
    /\ kicked = [c \in ConnIds |-> 0]

\* c.ctx is a child of s.ctx
ConnCtxDone(c) == connCancelled[c] \/ ctxDone

Created == {c \in ConnIds : connSt[c] # "none"}

\* a listing that reads every connection ever created, not the registry
ListItemsCreated(cs) == {<<connUuid[c], c>> : c \in Created}

\* data.Items: one entry per key c.uuid.String()
ListItems(cs) ==
    {<<u, CHOOSE c \in cs : connUuid[c] = u>> : u \in {connUuid[c] : c \in cs}}

(***************************************************************************)
(* HTTP handlers: requestPool.mw, onRequest, newConn, c.wait().            *)
(***************************************************************************)
\* connections that requests in flight may still ask for
Asking == {h \in Handlers : hpc[h] = "newConn"}

\* onRequest from its start to the call of newConn, or to its return
HandlerServe(h) ==
    /\ hpc[h] = "idle"
    /\ ~httpClosed
    /\ \E o \in SrvOutcomes :
          IF o.out.conn.present
              THEN /\ Cardinality(Created) + Cardinality(Asking) < MaxConns
                   /\ hpc' = [hpc EXCEPT ![h] = "newConn"]
                   /\ hauth' = [hauth EXCEPT ![h] = o.err]
                   /\ hnew' = [hnew EXCEPT ![h] = o.out.conn]
              ELSE UNCHANGED <<hpc, hauth, hnew>>
    /\ UNCHANGED <<ctxDone, loopPc, loopTo, loopRes, conns, connSt, connCancelled,
                   connUuid, connReq, wg, httpClosed, muxClosed, hconn, apc,
                   areq, ares, closerPc, notified, kicked>>
    /\ UNCHANGED <<reqVars, pairVars, fmpVars, newVars>>

\* a connNew case that creates the connection and does not register it
HandlerSendNoRegister(h) ==
    /\ hpc[h] = "newConn"
    /\ loopPc = "select"
    /\ \E c \in ConnIds :
          /\ c = Cardinality(Created) + 1
          /\ connSt' = [connSt EXCEPT ![c] = "running"]
          /\ connUuid' = [connUuid EXCEPT ![c] = NewUuid(c)]
          /\ connReq' = [connReq EXCEPT ![c] = hnew[h]]
          /\ loopRes' = [NoReply EXCEPT !.conn = c]
    /\ wg' = wg + 1
    /\ loopPc' = "replyNew"
    /\ loopTo' = h
    /\ hpc' = [hpc EXCEPT ![h] = "waitRes"]
    /\ UNCHANGED <<ctxDone, conns, connCancelled, httpClosed, muxClosed, hnew, hauth,
                   hconn, apc, areq, ares, closerPc, notified, kicked>>
    /\ UNCHANGED <<reqVars, pairVars, fmpVars, newVars>>

\* newConn: case s.connNew <- req, received by run(), which creates the
\* connection (newWebRTCConn: wg.Add(1), go c.run()) and registers it
HandlerSend(h) ==
    /\ hpc[h] = "newConn"
    /\ loopPc = "select"
    /\ \E c \in ConnIds :
          /\ c = Cardinality(Created) + 1
          /\ connSt' = [connSt EXCEPT ![c] = "running"]
          /\ connUuid' = [connUuid EXCEPT ![c] = NewUuid(c)]
          /\ connReq' = [connReq EXCEPT ![c] = hnew[h]]
          /\ conns' = conns \cup {c}
          /\ loopRes' = [NoReply EXCEPT !.conn = c]
    /\ wg' = wg + 1
    /\ loopPc' = "replyNew"
    /\ loopTo' = h
    /\ hpc' = [hpc EXCEPT ![h] = "waitRes"]
    /\ UNCHANGED <<ctxDone, connCancelled, httpClosed, muxClosed, hnew, hauth,
                   hconn, apc, areq, ares, closerPc, notified, kicked>>
    /\ UNCHANGED <<reqVars, pairVars, fmpVars, newVars>>

\* newConn: case <-s.ctx.Done(): return nil; onRequest returns
HandlerTerminated(h) ==
    /\ hpc[h] = "newConn"
    /\ ctxDone
    /\ hpc' = [hpc EXCEPT ![h] = "idle"]
    /\ hnew' = [hnew EXCEPT ![h] = NoConnReq]
    /\ hauth' = [hauth EXCEPT ![h] = ""]
    /\ UNCHANGED <<ctxDone, loopPc, loopTo, loopRes, conns, connSt, connCancelled,
                   connUuid, connReq, wg, httpClosed, muxClosed, hconn,
                   apc, areq, ares, closerPc, notified, kicked>>
    /\ UNCHANGED <<reqVars, pairVars, fmpVars, newVars>>

\* c.wait() returns and onRequest with it
HandlerWaitDone(h) ==
    /\ hpc[h] = "wait"
    /\ ConnCtxDone(hconn[h])
    /\ hpc' = [hpc EXCEPT ![h] = "idle"]
    /\ hnew' = [hnew EXCEPT ![h] = NoConnReq]
    /\ hauth' = [hauth EXCEPT ![h] = ""]
    /\ hconn' = [hconn EXCEPT ![h] = NoConn]
    /\ UNCHANGED <<ctxDone, loopPc, loopTo, loopRes, conns, connSt, connCancelled,
                   connUuid, connReq, wg, httpClosed, muxClosed,
                   apc, areq, ares, closerPc, notified, kicked>>
    /\ UNCHANGED <<reqVars, pairVars, fmpVars, newVars>>

(***************************************************************************)
(* Connections (webRTCConn.run): the connection ends, calls connClose and  *)
(* leaves the wait group.                                                  *)
(***************************************************************************)
\* the connection ends by itself (peer gone, error): c.ctxCancel()
ConnFail(c) ==
    /\ connSt[c] = "running"
    /\ ~ConnCtxDone(c)
    /\ connCancelled' = [connCancelled EXCEPT ![c] = TRUE]
    /\ UNCHANGED <<ctxDone, loopPc, loopTo, loopRes, conns, connSt, connUuid, connReq,
                   wg, httpClosed, muxClosed, hpc, hnew, hauth, hconn, apc, areq,
                   ares, closerPc, notified, kicked>>
    /\ UNCHANGED <<reqVars, pairVars, fmpVars, newVars>>

\* a chConnClose case that does not delete the connection from s.conns
ConnCloseSendNoDelete(c) ==
    /\ connSt[c] = "running"
    /\ ConnCtxDone(c)
    /\ loopPc = "select"
    /\ notified' = notified \cup {c}
    /\ connSt' = [connSt EXCEPT ![c] = "finished"]
    /\ connCancelled' = [connCancelled EXCEPT ![c] = TRUE]
    /\ wg' = wg - 1
    /\ UNCHANGED <<ctxDone, loopPc, loopTo, loopRes, conns, connUuid, connReq,
                   httpClosed, muxClosed, hpc, hnew, hauth, hconn, apc, areq,
                   ares, closerPc, kicked>>
    /\ UNCHANGED <<reqVars, pairVars, fmpVars, newVars>>

\* run() has ended or sees its context cancelled; connClose: case
\* s.chConnClose <- c, received by run(): delete(s.conns, conn); wg.Done()
ConnCloseSend(c) ==
    /\ connSt[c] = "running"
    /\ ConnCtxDone(c)
    /\ loopPc = "select"
    /\ conns' = conns \ {c}
    /\ notified' = notified \cup {c}
    /\ connSt' = [connSt EXCEPT ![c] = "finished"]
    /\ connCancelled' = [connCancelled EXCEPT ![c] = TRUE]
    /\ wg' = wg - 1
    /\ UNCHANGED <<ctxDone, loopPc, loopTo, loopRes, connUuid, connReq,
                   httpClosed, muxClosed, hpc, hnew, hauth, hconn, apc, areq,
                   ares, closerPc, kicked>>
    /\ UNCHANGED <<reqVars, pairVars, fmpVars, newVars>>

\* a connClose whose select has no case <-s.ctx.Done()
ConnCloseNoDone(c) ==
    /\ connSt[c] = "running"
    /\ FALSE
    /\ UNCHANGED srvVars
    /\ UNCHANGED <<reqVars, pairVars, fmpVars, newVars>>

\* the same with connClose: case <-s.ctx.Done(); wg.Done()
ConnCloseTerminated(c) ==
    /\ connSt[c] = "running"
    /\ ctxDone
    /\ connSt' = [connSt EXCEPT ![c] = "finished"]
    /\ connCancelled' = [connCancelled EXCEPT ![c] = TRUE]
    /\ wg' = wg - 1
    /\ UNCHANGED <<ctxDone, loopPc, loopTo, loopRes, conns, connUuid,
                   connReq, httpClosed, muxClosed, hpc, hnew, hauth, hconn, apc,
                   areq, ares, closerPc, notified, kicked>>
    /\ UNCHANGED <<reqVars, pairVars, fmpVars, newVars>>

(***************************************************************************)
(* API callers: apiConnsList and apiConnsKick.                             *)
(***************************************************************************)
\* history: a call apiConnsKick(id) has returned success
KickReturnedSuccess(id) ==
    /\ \E c \in ConnIds : connUuid[c] = id /\ kicked[c] > 0
    /\ \A b \in ApiCallers : apc[b] # "idle" => areq[b].id # id

ApiCall(a) ==
    /\ apc[a] = "idle"
    /\ \E op \in {"list", "kick"}, id \in UUIDs :
          areq' = [areq EXCEPT ![a] =
                      IF op = "list" THEN [NoCall EXCEPT !.op = "list"]
                      ELSE [op |-> "kick", id |-> id,
                            afterClose |-> \E c \in ConnIds :
                                connUuid[c] = id /\ connSt[c] = "finished",
                            afterNotify |-> \E c \in notified : connUuid[c] = id,
                            afterKick |-> KickReturnedSuccess(id)]]
    /\ apc' = [apc EXCEPT ![a] = "select"]
    /\ UNCHANGED <<ctxDone, loopPc, loopTo, loopRes, conns, connSt, connCancelled,
                   connUuid, connReq, wg, httpClosed, muxClosed, hpc, hnew,
                   hauth, hconn, ares, closerPc, notified, kicked>>
    /\ UNCHANGED <<reqVars, pairVars, fmpVars, newVars>>

\* an API call whose select has no case <-s.ctx.Done()
ApiNoDone(a) ==
    /\ apc[a] = "select"
    /\ FALSE
    /\ UNCHANGED srvVars
    /\ UNCHANGED <<reqVars, pairVars, fmpVars, newVars>>

\* case <-s.ctx.Done(): the call is about to return
\* ...{err: fmt.Errorf("terminated")}
ApiTerminated(a) ==
    /\ apc[a] = "select"
    /\ ctxDone
    /\ apc' = [apc EXCEPT ![a] = "return"]
    /\ ares' = [ares EXCEPT ![a] = [NoReply EXCEPT !.err = "terminated"]]
    /\ UNCHANGED <<ctxDone, loopPc, loopTo, loopRes, conns, connSt, connCancelled,
                   connUuid, connReq, wg, httpClosed, muxClosed, hpc, hnew,
                   hauth, hconn, areq, closerPc, notified, kicked>>
    /\ UNCHANGED <<reqVars, pairVars, fmpVars, newVars>>

\* apiConnsList / apiConnsKick returns to the API
ApiReturn(a) ==
    /\ apc[a] = "return"
    /\ apc' = [apc EXCEPT ![a] = "idle"]
    /\ areq' = [areq EXCEPT ![a] = NoCall]
    /\ ares' = [ares EXCEPT ![a] = NoReply]
    /\ UNCHANGED <<ctxDone, loopPc, loopTo, loopRes, conns, connSt, connCancelled,
                   connUuid, connReq, wg, httpClosed, muxClosed, hpc, hnew,
                   hauth, hconn, closerPc, notified, kicked>>
    /\ UNCHANGED <<reqVars, pairVars, fmpVars, newVars>>

(***************************************************************************)
(* run(): the cases of the select that serve the API, the replies, and the *)
(* shutdown sequence.                                                      *)
(***************************************************************************)
\* case req := <-s.chAPIConnsList
LoopList(a) ==
    /\ apc[a] = "select"
    /\ areq[a].op = "list"
    /\ loopPc = "select"
    /\ loopRes' = [conn |-> NoConn, err |-> "nil", items |-> ListItems(conns)]
    /\ loopPc' = "replyList"
    /\ loopTo' = a
    /\ apc' = [apc EXCEPT ![a] = "waitRes"]
    /\ UNCHANGED <<ctxDone, conns, connSt, connCancelled, connUuid, connReq, wg,
                   httpClosed, muxClosed, hpc, hnew, hauth, hconn, areq, ares,
                   closerPc, notified, kicked>>
    /\ UNCHANGED <<reqVars, pairVars, fmpVars, newVars>>

\* a kick case that closes the connection and leaves it in s.conns
LoopKickNoDelete(a) ==
    /\ apc[a] = "select"
    /\ areq[a].op = "kick"
    /\ loopPc = "select"
    /\ LET found == {c \in conns : connUuid[c] = areq[a].id}
       IN  IF found # {}
               THEN \E c \in found :
                       /\ connCancelled' = [connCancelled EXCEPT ![c] = TRUE]
                       /\ kicked' = [kicked EXCEPT ![c] = @ + 1]
                       /\ loopRes' = [NoReply EXCEPT !.err = "nil"]
               ELSE /\ loopRes' = [NoReply EXCEPT !.err = "not found"]
                    /\ UNCHANGED <<connCancelled, kicked>>
    /\ loopPc' = "replyKick"
    /\ loopTo' = a
    /\ apc' = [apc EXCEPT ![a] = "waitRes"]
    /\ UNCHANGED <<ctxDone, conns, connSt, connUuid, connReq, wg, httpClosed,
                   muxClosed, hpc, hnew, hauth, hconn, areq, ares, closerPc, notified>>
    /\ UNCHANGED <<reqVars, pairVars, fmpVars, newVars>>

\* a kick case that does not compare the uuid
LoopKickAnyConn(a) ==
    /\ apc[a] = "select"
    /\ areq[a].op = "kick"
    /\ loopPc = "select"
    /\ LET found == conns
       IN  IF found # {}
               THEN \E c \in found :
                       /\ conns' = conns \ {c}
                       /\ connCancelled' = [connCancelled EXCEPT ![c] = TRUE]
                       /\ kicked' = [kicked EXCEPT ![c] = @ + 1]
                       /\ loopRes' = [NoReply EXCEPT !.err = "nil"]
               ELSE /\ loopRes' = [NoReply EXCEPT !.err = "not found"]
                    /\ UNCHANGED <<conns, connCancelled, kicked>>
    /\ loopPc' = "replyKick"
    /\ loopTo' = a
    /\ apc' = [apc EXCEPT ![a] = "waitRes"]
    /\ UNCHANGED <<ctxDone, connSt, connUuid, connReq, wg, httpClosed, muxClosed,
                   hpc, hnew, hauth, hconn, areq, ares, closerPc, notified>>
    /\ UNCHANGED <<reqVars, pairVars, fmpVars, newVars>>

\* case req := <-s.chAPIConnsKick; c.close() cancels the context of c
LoopKick(a) ==
    /\ apc[a] = "select"
    /\ areq[a].op = "kick"
    /\ loopPc = "select"
    /\ LET found == {c \in conns : connUuid[c] = areq[a].id}
       IN  IF found # {}
               THEN \E c \in found :
                       /\ conns' = conns \ {c}
                       /\ connCancelled' = [connCancelled EXCEPT ![c] = TRUE]
                       /\ kicked' = [kicked EXCEPT ![c] = @ + 1]
                       /\ loopRes' = [NoReply EXCEPT !.err = "nil"]
               ELSE /\ loopRes' = [NoReply EXCEPT !.err = "not found"]
                    /\ UNCHANGED <<conns, connCancelled, kicked>>
    /\ loopPc' = "replyKick"
    /\ loopTo' = a
    /\ apc' = [apc EXCEPT ![a] = "waitRes"]
    /\ UNCHANGED <<ctxDone, connSt, connUuid, connReq, wg, httpClosed, muxClosed,
                   hpc, hnew, hauth, hconn, areq, ares, closerPc, notified>>
    /\ UNCHANGED <<reqVars, pairVars, fmpVars, newVars>>

\* req.res <- c, received by newConn: return <-req.res
LoopReplyNew ==
    /\ loopPc = "replyNew"
    /\ hpc[loopTo] = "waitRes"
    /\ hpc' = [hpc EXCEPT ![loopTo] = "wait"]
    /\ hconn' = [hconn EXCEPT ![loopTo] = loopRes.conn]
    /\ loopPc' = "select"
    /\ loopTo' = ""
    /\ loopRes' = NoReply
    /\ UNCHANGED <<ctxDone, conns, connSt, connCancelled, connUuid, connReq, wg,
                   httpClosed, muxClosed, hnew, hauth, apc, areq, ares,
                   closerPc, notified, kicked>>
    /\ UNCHANGED <<reqVars, pairVars, fmpVars, newVars>>

\* req.res <- ..., received by apiConnsList or apiConnsKick: <-req.res
LoopReplyApi ==
    /\ loopPc \in {"replyList", "replyKick"}
    /\ apc[loopTo] = "waitRes"
    /\ apc' = [apc EXCEPT ![loopTo] = "return"]
    /\ ares' = [ares EXCEPT ![loopTo] = loopRes]
    /\ loopPc' = "select"
    /\ loopTo' = ""
    /\ loopRes' = NoReply
    /\ UNCHANGED <<ctxDone, conns, connSt, connCancelled, connUuid, connReq, wg,
                   httpClosed, muxClosed, hpc, hnew, hauth, hconn, areq,
                   closerPc, notified, kicked>>
    /\ UNCHANGED <<reqVars, pairVars, fmpVars, newVars>>

\* case <-s.ctx.Done(): break outer; s.ctxCancel(); httpServer.Shutdown();
\* s.ln.Close()
LoopBreak ==
    /\ loopPc = "select"
    /\ ctxDone
    /\ loopPc' = "poolClose"
    /\ httpClosed' = TRUE
    /\ UNCHANGED <<ctxDone, loopTo, loopRes, conns, connSt, connCancelled, connUuid,
                   connReq, wg, muxClosed, hpc, hnew, hauth, hconn, apc, areq,
                   ares, closerPc, notified, kicked>>
    /\ UNCHANGED <<reqVars, pairVars, fmpVars, newVars>>

\* s.requestPool.close() returns: no handler is inside requestPool.mw
LoopPoolClosed ==
    /\ loopPc = "poolClose"
    /\ \A h \in Handlers : hpc[h] = "idle"
    /\ loopPc' = "wgWait"
    /\ UNCHANGED <<ctxDone, loopTo, loopRes, conns, connSt, connCancelled, connUuid,
                   connReq, wg, httpClosed, muxClosed, hpc, hnew, hauth, hconn,
                   apc, areq, ares, closerPc, notified, kicked>>
    /\ UNCHANGED <<reqVars, pairVars, fmpVars, newVars>>

\* a shutdown that closes the mux listeners without wg.Wait()
LoopWgDoneNoWait ==
    /\ loopPc = "wgWait"
    /\ muxClosed' = TRUE
    /\ loopPc' = "return"
    /\ UNCHANGED <<ctxDone, loopTo, loopRes, conns, connSt, connCancelled, connUuid,
                   connReq, wg, httpClosed, hpc, hnew, hauth, hconn, apc, areq,
                   ares, closerPc, notified, kicked>>
    /\ UNCHANGED <<reqVars, pairVars, fmpVars, newVars>>

\* wg.Wait() returns; udpMuxLn.Close(), tcpMuxLn.Close()
LoopWgDone ==
    /\ loopPc = "wgWait"
    /\ wg = 0
    /\ muxClosed' = TRUE
    /\ loopPc' = "return"
    /\ UNCHANGED <<ctxDone, loopTo, loopRes, conns, connSt, connCancelled, connUuid,
                   connReq, wg, httpClosed, hpc, hnew, hauth, hconn, apc, areq,
                   ares, closerPc, notified, kicked>>
    /\ UNCHANGED <<reqVars, pairVars, fmpVars, newVars>>

\* defer close(s.done)
LoopReturn ==
    /\ loopPc = "return"
    /\ loopPc' = "done"
    /\ UNCHANGED <<ctxDone, loopTo, loopRes, conns, connSt, connCancelled, connUuid,
                   connReq, wg, httpClosed, muxClosed, hpc, hnew, hauth, hconn,
                   apc, areq, ares, closerPc, notified, kicked>>
    /\ UNCHANGED <<reqVars, pairVars, fmpVars, newVars>>

\* the done channel is closed
DoneClosed == loopPc = "done"

(***************************************************************************)
(* close() and the parent context.                                         *)
(***************************************************************************)
\* close(): s.ctxCancel()
Close ==
    /\ closerPc = "idle"
    /\ closerPc' = "waitDone"
    /\ ctxDone' = TRUE
    /\ UNCHANGED <<loopPc, loopTo, loopRes, conns, connSt, connCancelled, connUuid,
                   connReq, wg, httpClosed, muxClosed, hpc, hnew, hauth, hconn,
                   apc, areq, ares, notified, kicked>>
    /\ UNCHANGED <<reqVars, pairVars, fmpVars, newVars>>

\* close(): <-s.done
CloseReturn ==
    /\ closerPc = "waitDone"
    /\ DoneClosed
    /\ closerPc' = "returned"
    /\ UNCHANGED <<ctxDone, loopPc, loopTo, loopRes, conns, connSt, connCancelled,
                   connUuid, connReq, wg, httpClosed, muxClosed, hpc, hnew,
                   hauth, hconn, apc, areq, ares, notified, kicked>>
    /\ UNCHANGED <<reqVars, pairVars, fmpVars, newVars>>

\* parentCtx is cancelled: s.ctx, its child, is cancelled with it
ParentCancel ==
    /\ ~ctxDone
    /\ ctxDone' = TRUE
    /\ UNCHANGED <<loopPc, loopTo, loopRes, conns, connSt, connCancelled, connUuid,
                   connReq, wg, httpClosed, muxClosed, hpc, hnew, hauth, hconn,
                   apc, areq, ares, closerPc, notified, kicked>>
    /\ UNCHANGED <<reqVars, pairVars, fmpVars, newVars>>

SrvStep ==
    \/ \E h \in Handlers : HandlerServe(h)
    \/ \E h \in Handlers : HandlerSend(h)
    \/ \E h \in Handlers : HandlerTerminated(h)
    \/ \E h \in Handlers : HandlerWaitDone(h)
    \/ \E c \in ConnIds : ConnFail(c)
    \/ \E c \in ConnIds : ConnCloseSend(c)
    \/ \E c \in ConnIds : ConnCloseTerminated(c)
    \/ \E a \in ApiCallers : ApiCall(a)
    \/ \E a \in ApiCallers : ApiTerminated(a)
    \/ \E a \in ApiCallers : ApiReturn(a)
    \/ \E a \in ApiCallers : LoopList(a)
    \/ \E a \in ApiCallers : LoopKick(a)
    \/ LoopReplyNew
    \/ LoopReplyApi
    \/ LoopBreak
    \/ LoopPoolClosed
    \/ LoopWgDone
    \/ LoopReturn
    \/ Close
    \/ CloseReturn
    \/ ParentCancel



(***************************************************************************)
(* The fMP4 client processor: run, processSegment, onSubpartProcessed and  *)
(* the video track processor that consumes its queue.                      *)
(***************************************************************************)
\* segments the processor pulls in one run
MaxSegments == 2
\* subparts in one segment
MaxSubparts == 2
\* largest base time a subpart carries
MaxBaseTime == 1
\* width in bits of the words that stand for uint64
WordBits == 3
\* capacity of the queue of a track processor
QueueCap == 1

Modulus == 2 ^ WordBits
\* the values below 2^(width-1)
HalfRange == 0..(2 ^ (WordBits - 1) - 1)

\* a - b on unsigned words
SubWord(a, b) == (a + Modulus - b) % Modulus

VideoID == 1
AudioID == 2
UnknownID == 3
TrackIDs == {VideoID, AudioID, UnknownID}

Subparts == [id : TrackIDs, baseTime : 0..MaxBaseTime]

RECURSIVE SegmentsUpTo(_)
SegmentsUpTo(n) ==
    IF n = 0 THEN {<<>>}
    ELSE LET shorter == SegmentsUpTo(n - 1)
         IN  shorter \cup {Append(g, t) : g \in {x \in shorter : Len(x) = n - 1}, t \in Subparts}

\* what fmp4.PartRead returns for a well-formed segment
Segments == SegmentsUpTo(MaxSubparts)

\* the track processors the constructor may create
Procs == {"video", "audio"}
NoneEnqueued == [t \in Procs |-> <<>>]

FmpIdle ==
    /\ fctxDone = FALSE
    /\ initVideoTrack = FALSE
    /\ initAudioTrack = FALSE
    /\ fpc = "idle"
    /\ ferr = ""
    /\ fsegs = 0
    /\ fnow = 0
    /\ subparts = <<>>
    /\ rebased = <<>>
    /\ processingCount = 0
    /\ waited = 0
    /\ clockInitialized = FALSE
    /\ startBaseTime = 0
    /\ startRTC = [t \in {"video", "audio"} |-> 0]
    /\ vqueue = <<>>
    /\ vpc = "none"
    /\ enqueued = NoneEnqueued

\* newClientProcessorFMP4 returned the processor and the pool runs it
FmpInit ==
    /\ fctxDone = FALSE
    /\ initVideoTrack \in BOOLEAN
    /\ initAudioTrack \in BOOLEAN
    /\ fpc = "pull"
    /\ ferr = ""
    /\ fsegs = 0
    /\ fnow = 1
    /\ subparts = <<>>
    /\ rebased = <<>>
    /\ processingCount = 0
    /\ waited = 0
    /\ clockInitialized = FALSE
    /\ startBaseTime = 0
    /\ startRTC = [t \in {"video", "audio"} |-> 0]
    /\ vqueue = <<>>
    /\ vpc = IF initVideoTrack THEN "recv" ELSE "none"
    /\ enqueued = NoneEnqueued

\* run: segmentQueue.pull returns a segment and processSegment reads it
RunPull ==
    /\ fpc = "pull"
    /\ fsegs < MaxSegments
    /\ \E seg \in Segments : subparts' = seg
    /\ rebased' = <<>>
    /\ processingCount' = 0
    /\ waited' = 0
    /\ fsegs' = fsegs + 1
    /\ fnow' = fnow + 1
    /\ fpc' = "loop"
    /\ UNCHANGED <<fctxDone, initVideoTrack, initAudioTrack, ferr, clockInitialized,
                   startBaseTime, startRTC, vqueue, vpc>>
    /\ enqueued' = NoneEnqueued
    /\ UNCHANGED <<srvVars, reqVars, pairVars, newVars>>

\* run: fmp4.PartRead fails on the segment pulled
RunPullMalformed ==
    /\ fpc = "pull"
    /\ fsegs < MaxSegments
    /\ fsegs' = fsegs + 1
    /\ fnow' = fnow + 1
    /\ fpc' = "returned"
    /\ ferr' = "PartRead"
    /\ UNCHANGED <<fctxDone, initVideoTrack, initAudioTrack, subparts, rebased,
                   processingCount, waited, clockInitialized, startBaseTime,
                   startRTC, vqueue, vpc>>
    /\ UNCHANGED enqueued
    /\ UNCHANGED <<srvVars, reqVars, pairVars, newVars>>

\* run: segmentQueue.pull returns !ok
RunPullTerminated ==
    /\ fpc = "pull"
    /\ fctxDone
    /\ fpc' = "returned"
    /\ ferr' = "terminated"
    /\ UNCHANGED <<fctxDone, initVideoTrack, initAudioTrack, fsegs, fnow, subparts,
                   rebased, processingCount, waited, clockInitialized,
                   startBaseTime, startRTC, vqueue, vpc>>
    /\ UNCHANGED enqueued
    /\ UNCHANGED <<srvVars, reqVars, pairVars, newVars>>

\* a first loop that starts the clock again with each segment
ProcessSubpartRestartClock ==
    /\ fpc = "loop"
    /\ Len(rebased) < Len(subparts)
    /\ LET track == subparts[Len(rebased) + 1]
           initialized == clockInitialized /\ Len(rebased) > 0
           start == IF initialized THEN startBaseTime ELSE track.baseTime
       IN  /\ clockInitialized' = TRUE
           /\ startBaseTime' = start
           /\ startRTC' =
                 IF initialized THEN startRTC
                 ELSE [t \in {"video", "audio"} |->
                          IF t = "video"
                              THEN (IF initVideoTrack THEN fnow ELSE startRTC[t])
                              ELSE (IF initAudioTrack THEN fnow ELSE startRTC[t])]
           /\ rebased' = Append(rebased, SubWord(track.baseTime, start))
           /\ IF initVideoTrack /\ track.id = VideoID
                  THEN fpc' = "enqueue"
                  ELSE fpc' = "loop"
    /\ UNCHANGED <<fctxDone, initVideoTrack, initAudioTrack, ferr, fsegs, fnow,
                   subparts, processingCount, waited, vqueue, vpc>>
    /\ UNCHANGED enqueued
    /\ UNCHANGED <<srvVars, reqVars, pairVars, newVars>>

\* processSegment, first loop, one subpart: the clock, the rebasing, and the
\* choice of the queue
ProcessSubpart ==
    /\ fpc = "loop"
    /\ Len(rebased) < Len(subparts)
    /\ LET track == subparts[Len(rebased) + 1]
           start == IF clockInitialized THEN startBaseTime ELSE track.baseTime
       IN  /\ clockInitialized' = TRUE
           /\ startBaseTime' = start
           /\ startRTC' =
                 IF clockInitialized THEN startRTC
                 ELSE [t \in {"video", "audio"} |->
                          IF t = "video"
                              THEN (IF initVideoTrack THEN fnow ELSE startRTC[t])
                              ELSE (IF initAudioTrack THEN fnow ELSE startRTC[t])]
           /\ rebased' = Append(rebased, SubWord(track.baseTime, start))
           /\ IF initVideoTrack /\ track.id = VideoID
                  THEN fpc' = "enqueue"
                  ELSE fpc' = "loop"
    /\ UNCHANGED <<fctxDone, initVideoTrack, initAudioTrack, ferr, fsegs, fnow,
                   subparts, processingCount, waited, vqueue, vpc>>
    /\ UNCHANGED enqueued
    /\ UNCHANGED <<srvVars, reqVars, pairVars, newVars>>

\* case p.videoProc.queue <- track
Enqueue ==
    /\ fpc = "enqueue"
    /\ Len(vqueue) < QueueCap
    /\ vqueue' = Append(vqueue, [id |-> subparts[Len(rebased)].id,
                                 baseTime |-> rebased[Len(rebased)]])
    /\ processingCount' = processingCount + 1
    /\ fpc' = "loop"
    /\ UNCHANGED <<fctxDone, initVideoTrack, initAudioTrack, ferr, fsegs, fnow,
                   subparts, rebased, waited, clockInitialized, startBaseTime,
                   startRTC, vpc>>
    /\ enqueued' = [enqueued EXCEPT !["video"] = Append(@, Len(rebased))]
    /\ UNCHANGED <<srvVars, reqVars, pairVars, newVars>>

\* case <-ctx.Done() of the first loop
EnqueueTerminated ==
    /\ fpc = "enqueue"
    /\ fctxDone
    /\ fpc' = "returned"
    /\ ferr' = "terminated"
    /\ UNCHANGED <<fctxDone, initVideoTrack, initAudioTrack, fsegs, fnow, subparts,
                   rebased, processingCount, waited, clockInitialized,
                   startBaseTime, startRTC, vqueue, vpc>>
    /\ UNCHANGED enqueued
    /\ UNCHANGED <<srvVars, reqVars, pairVars, newVars>>

\* the first loop is over
LoopEnd ==
    /\ fpc = "loop"
    /\ Len(rebased) = Len(subparts)
    /\ fpc' = "wait"
    /\ UNCHANGED <<fctxDone, initVideoTrack, initAudioTrack, ferr, fsegs, fnow,
                   subparts, rebased, processingCount, waited, clockInitialized,
                   startBaseTime, startRTC, vqueue, vpc>>
    /\ UNCHANGED enqueued
    /\ UNCHANGED <<srvVars, reqVars, pairVars, newVars>>

\* case <-p.subpartProcessed, meeting case p.subpartProcessed <- struct{}{}
\* of onSubpartProcessed
WaitSubpartProcessed ==
    /\ fpc = "wait"
    /\ waited < processingCount
    /\ vpc = "signal"
    /\ waited' = waited + 1
    /\ vpc' = "recv"
    /\ UNCHANGED <<fctxDone, initVideoTrack, initAudioTrack, fpc, ferr, fsegs, fnow,
                   subparts, rebased, processingCount, clockInitialized,
                   startBaseTime, startRTC, vqueue>>
    /\ UNCHANGED enqueued
    /\ UNCHANGED <<srvVars, reqVars, pairVars, newVars>>

\* a second loop whose select has no case <-ctx.Done()
WaitNoDone ==
    /\ fpc = "wait"
    /\ FALSE
    /\ UNCHANGED fmpVars
    /\ UNCHANGED <<srvVars, reqVars, pairVars, newVars>>

\* case <-ctx.Done() of the second loop
WaitTerminated ==
    /\ fpc = "wait"
    /\ waited < processingCount
    /\ fctxDone
    /\ fpc' = "returned"
    /\ ferr' = "terminated"
    /\ UNCHANGED <<fctxDone, initVideoTrack, initAudioTrack, fsegs, fnow, subparts,
                   rebased, processingCount, waited, clockInitialized,
                   startBaseTime, startRTC, vqueue, vpc>>
    /\ UNCHANGED enqueued
    /\ UNCHANGED <<srvVars, reqVars, pairVars, newVars>>

\* a processSegment that returns without the second loop
SegmentDoneEarly ==
    /\ fpc = "wait"
    /\ fpc' = "pull"
    /\ subparts' = <<>>
    /\ rebased' = <<>>
    /\ processingCount' = 0
    /\ waited' = 0
    /\ enqueued' = NoneEnqueued
    /\ UNCHANGED <<fctxDone, initVideoTrack, initAudioTrack, ferr, fsegs, fnow,
                   clockInitialized, startBaseTime, startRTC, vqueue, vpc>>
    /\ UNCHANGED <<srvVars, reqVars, pairVars, newVars>>

\* processSegment returns nil, its locals are gone, and run pulls again
SegmentDone ==
    /\ fpc = "wait"
    /\ waited = processingCount
    /\ fpc' = "pull"
    /\ subparts' = <<>>
    /\ rebased' = <<>>
    /\ processingCount' = 0
    /\ waited' = 0
    /\ enqueued' = NoneEnqueued
    /\ UNCHANGED <<fctxDone, initVideoTrack, initAudioTrack, ferr, fsegs, fnow,
                   clockInitialized, startBaseTime, startRTC, vqueue, vpc>>
    /\ UNCHANGED <<srvVars, reqVars, pairVars, newVars>>

\* the video track processor takes a subpart from its queue, processes it
\* and calls onSubpartProcessed
TrackProcess ==
    /\ vpc = "recv"
    /\ vqueue # <<>>
    /\ vqueue' = Tail(vqueue)
    /\ vpc' = "signal"
    /\ UNCHANGED <<fctxDone, initVideoTrack, initAudioTrack, fpc, ferr, fsegs, fnow,
                   subparts, rebased, processingCount, waited, clockInitialized,
                   startBaseTime, startRTC>>
    /\ UNCHANGED enqueued
    /\ UNCHANGED <<srvVars, reqVars, pairVars, newVars>>

\* onSubpartProcessed: case <-ctx.Done()
SubpartProcessedTerminated ==
    /\ vpc = "signal"
    /\ fctxDone
    /\ vpc' = "recv"
    /\ UNCHANGED <<fctxDone, initVideoTrack, initAudioTrack, fpc, ferr, fsegs, fnow,
                   subparts, rebased, processingCount, waited, clockInitialized,
                   startBaseTime, startRTC, vqueue>>
    /\ UNCHANGED enqueued
    /\ UNCHANGED <<srvVars, reqVars, pairVars, newVars>>

\* the track processor returns when the context is cancelled
TrackReturn ==
    /\ vpc = "recv"
    /\ fctxDone
    /\ vpc' = "returned"
    /\ UNCHANGED <<fctxDone, initVideoTrack, initAudioTrack, fpc, ferr, fsegs, fnow,
                   subparts, rebased, processingCount, waited, clockInitialized,
                   startBaseTime, startRTC, vqueue>>
    /\ UNCHANGED enqueued
    /\ UNCHANGED <<srvVars, reqVars, pairVars, newVars>>

\* the routine pool cancels the context
FmpCancel ==
    /\ ~fctxDone
    /\ fctxDone' = TRUE
    /\ UNCHANGED <<initVideoTrack, initAudioTrack, fpc, ferr, fsegs, fnow, subparts,
                   rebased, processingCount, waited, clockInitialized,
                   startBaseTime, startRTC, vqueue, vpc>>
    /\ UNCHANGED enqueued
    /\ UNCHANGED <<srvVars, reqVars, pairVars, newVars>>

FmpStep ==
    \/ RunPull
    \/ RunPullMalformed
    \/ RunPullTerminated
    \/ ProcessSubpart
    \/ Enqueue
    \/ EnqueueTerminated
    \/ LoopEnd
    \/ WaitSubpartProcessed
    \/ WaitTerminated
    \/ SegmentDone
    \/ TrackProcess
    \/ SubpartProcessedTerminated
    \/ TrackReturn
    \/ FmpCancel

(***************************************************************************)
(* newWebRTCServer: the listeners it opens, the errors it returns, the     *)
(* goroutine it starts.                                                    *)
(***************************************************************************)
\* iceUDPMuxAddress, iceTCPMuxAddress: empty, or an address to listen on
MuxAddresses == {"", ":8189"}

\* the arguments that decide the control flow, and whether each call to the
\* system fails: net.Listen, tls.LoadX509KeyPair, net.ListenPacket, and
\* net.Listen for the ICE/TCP mux
NewArgs ==
    [encryption : BOOLEAN, iceUDPMuxAddress : MuxAddresses,
     iceTCPMuxAddress : MuxAddresses, listenErr : BOOLEAN, keyPairErr : BOOLEAN,
     listenPacketErr : BOOLEAN, tcpListenErr : BOOLEAN]
NoArgs ==
    [encryption |-> FALSE, iceUDPMuxAddress |-> "", iceTCPMuxAddress |-> "",
     listenErr |-> FALSE, keyPairErr |-> FALSE, listenPacketErr |-> FALSE,
     tcpListenErr |-> FALSE]

\* what a call leaves behind: the error returned ("nil": the server was
\* returned), each listener ("nil": never opened, "open", "closed"), and
\* whether go s.run() was executed
Returned(err, ln, udpMuxLn, tcpMuxLn, running) ==
    [err |-> err, ln |-> ln, udpMuxLn |-> udpMuxLn, tcpMuxLn |-> tcpMuxLn,
     running |-> running]
NoReturn == Returned("", "nil", "nil", "nil", FALSE)

NewWebRTCServer(a) ==
    LET udpMuxLn == IF a.iceUDPMuxAddress # "" THEN "open" ELSE "nil"
        tcpMuxLn == IF a.iceTCPMuxAddress # "" THEN "open" ELSE "nil"
    IN  IF a.listenErr
            THEN Returned("net.Listen", "nil", "nil", "nil", FALSE)
        ELSE IF a.encryption /\ a.keyPairErr
            THEN Returned("tls.LoadX509KeyPair", "closed", "nil", "nil", FALSE)
        ELSE IF a.iceUDPMuxAddress # "" /\ a.listenPacketErr
            THEN Returned("net.ListenPacket", "open", "nil", "nil", FALSE)
        ELSE IF a.iceTCPMuxAddress # "" /\ a.tcpListenErr
            THEN Returned("net.Listen (ICE/TCP)", "open", udpMuxLn, "nil", FALSE)
        ELSE Returned("nil", "open", udpMuxLn, tcpMuxLn, TRUE)

NewIdle ==
    /\ nargs = NoArgs
    /\ nstage = "idle"
    /\ nres = NoReturn

NewInit ==
    /\ nargs \in NewArgs
    /\ nstage = "called"
    /\ nres = NoReturn

\* newWebRTCServer runs on the arguments
NewServer ==
    /\ nstage = "called"
    /\ nres' = NewWebRTCServer(nargs)
    /\ nstage' = "returned"
    /\ UNCHANGED nargs
    /\ UNCHANGED <<srvVars, reqVars, pairVars, fmpVars>>

(***************************************************************************)
(* The specifications.                                                     *)
(***************************************************************************)
vars == <<srvVars, reqVars, pairVars, fmpVars, newVars>>

Init == SrvInit /\ ReqIdle /\ PairIdle /\ FmpIdle /\ NewIdle
Next == SrvStep
Spec == Init /\ [][Next]_vars

InitReq == SrvInit /\ ReqInit /\ PairIdle /\ FmpIdle /\ NewIdle
NextReq == ServeRequest
SpecReq == InitReq /\ [][NextReq]_vars

InitPair == SrvInit /\ ReqIdle /\ PairInit /\ FmpIdle /\ NewIdle
NextPair == \E i \in Slots : ServeSlot(i)
SpecPair == InitPair /\ [][NextPair]_vars

InitFMP4 == SrvInit /\ ReqIdle /\ PairIdle /\ FmpInit /\ NewIdle
NextFMP4 == FmpStep
SpecFMP4 == InitFMP4 /\ [][NextFMP4]_vars

InitNew == SrvInit /\ ReqIdle /\ PairIdle /\ FmpIdle /\ NewInit
NextNew == NewServer
SpecNew == InitNew /\ [][NextNew]_vars

(***************************************************************************)
(* Claims about the server actor.                                          *)
(***************************************************************************)
\* the loop is between the receipt of a request and the send of its reply
LoopReplying == loopPc \in {"replyNew", "replyList", "replyKick"}

\* C1: no call of newConn, connClose, apiConnsList or apiConnsKick can block
\* for ever, in any interleaving with the shutdown.  In every reachable state
\* a caller that waits on a mailbox can hand its request to the loop, or can
\* leave through s.ctx.Done(), or the loop is sending a reply and returns to
\* its select afterwards; a caller whose request was accepted is the one the
\* loop is replying to, and that reply can be delivered; when the context is
\* cancelled the caller can always leave with "terminated" (nil for newConn),
\* and "terminated" is returned only then.
C1_CallsNeverBlock ==
    /\ \A a \in ApiCallers :
          /\ apc[a] = "select" =>
                \/ ENABLED LoopList(a)
                \/ ENABLED LoopKick(a)
                \/ ENABLED ApiTerminated(a)
                \/ LoopReplying
          /\ apc[a] = "select" /\ ctxDone => ENABLED ApiTerminated(a)
          /\ apc[a] = "waitRes" => loopTo = a /\ ENABLED LoopReplyApi
          /\ apc[a] = "return" /\ ares[a].err = "terminated" => ctxDone
    /\ \A h \in Handlers :
          /\ hpc[h] = "newConn" =>
                \/ ENABLED HandlerSend(h)
                \/ ENABLED HandlerTerminated(h)
                \/ LoopReplying
          /\ hpc[h] = "newConn" /\ ctxDone => ENABLED HandlerTerminated(h)
          /\ hpc[h] = "waitRes" => loopTo = h /\ ENABLED LoopReplyNew
    /\ \A c \in ConnIds :
          /\ connSt[c] = "running" /\ ConnCtxDone(c) =>
                \/ ENABLED ConnCloseSend(c)
                \/ ENABLED ConnCloseTerminated(c)
                \/ LoopReplying
          /\ connSt[c] = "running" /\ ctxDone => ENABLED ConnCloseTerminated(c)
    /\ LoopReplying => ENABLED LoopReplyNew \/ ENABLED LoopReplyApi

\* C1 witness: after the loop has left its select for good, an API call and
\* a newConn are pending and a call has returned "terminated"
C1_Witness ==
    /\ loopPc \notin {"select", "replyNew", "replyList", "replyKick"}
    /\ \E a \in ApiCallers : apc[a] = "return" /\ ares[a].err = "terminated"
    /\ \E h \in Handlers : hpc[h] = "newConn"

\* C2 as claimed: a kick issued after the connection with that id has
\* closed returns "not found"
C2_KickAfterCloseNotFound ==
    \A a \in ApiCallers :
        apc[a] = "return" /\ areq[a].op = "kick" /\ areq[a].afterClose
            => ares[a].err = "not found"

\* C2 amended: a kick issued after run() has received the close notification
\* of the connection with that id never succeeds: it returns "not found",
\* or "terminated" once the server context is cancelled
C2_KickAfterNotifyNeverSucceeds ==
    \A a \in ApiCallers :
        apc[a] = "return" /\ areq[a].op = "kick" /\ areq[a].afterNotify
            => /\ ares[a].err \in {"not found", "terminated"}
               /\ ares[a].err = "terminated" => ctxDone

\* C2 witness: such a kick has returned "not found"
C2_Witness ==
    \E a \in ApiCallers :
        /\ apc[a] = "return" /\ areq[a].op = "kick" /\ areq[a].afterNotify
        /\ ares[a].err = "not found"

\* the step in which run() receives and processes the kick of caller a
KickProcessed(a) ==
    apc[a] = "select" /\ apc'[a] = "waitRes" /\ areq[a].op = "kick"

\* the step in which run() receives and processes the list request of a
ListProcessed(a) ==
    apc[a] = "select" /\ apc'[a] = "waitRes" /\ areq[a].op = "list"

\* the step in which caller a receives the reply
ReplyReceived(a) == apc[a] = "waitRes" /\ apc'[a] = "return"

\* C3: the kick case answers success exactly when a connection with the
\* given uuid is registered; then that connection alone leaves the registry
\* and is closed; otherwise it answers "not found" and changes nothing; the
\* caller returns that answer
C3_KickExact ==
    [][\A a \in ApiCallers :
          /\ KickProcessed(a) =>
                LET found == {c \in conns : connUuid[c] = areq[a].id}
                IN  /\ (loopRes'.err = "nil") <=> (found # {})
                    /\ found = {} =>
                          /\ loopRes'.err = "not found"
                          /\ UNCHANGED <<conns, connCancelled, kicked>>
                    /\ found # {} =>
                          \E c \in found :
                             /\ conns' = conns \ {c}
                             /\ connCancelled' = [connCancelled EXCEPT ![c] = TRUE]
                             /\ kicked' = [kicked EXCEPT ![c] = @ + 1]
                    /\ UNCHANGED <<connSt, connUuid, wg, notified>>
          /\ ReplyReceived(a) /\ areq[a].op = "kick" =>
                ares'[a].err = loopRes.err
      ]_vars

\* C3 witness: a kick has returned success, its connection is out of the
\* registry and closed, and another connection is still registered and open
C3_Witness ==
    \E a \in ApiCallers, c \in ConnIds, d \in ConnIds :
        /\ apc[a] = "return" /\ areq[a].op = "kick" /\ ares[a].err = "nil"
        /\ connUuid[c] = areq[a].id /\ c \notin conns /\ kicked[c] = 1
        /\ d \in conns /\ ~connCancelled[d]

\* C4: the list case answers one item per registered connection, keyed by
\* its uuid, none for a connection that was closed or kicked before, and
\* changes neither the registry nor any connection; the caller returns that
\* answer
C4_ListExact ==
    [][\A a \in ApiCallers :
          /\ ListProcessed(a) =>
                /\ loopRes'.err = "nil"
                /\ Cardinality(loopRes'.items) = Cardinality(conns)
                /\ \A c \in conns : <<connUuid[c], c>> \in loopRes'.items
                /\ \A it \in loopRes'.items :
                      /\ it[2] \in conns
                      /\ it[2] \notin notified
                      /\ kicked[it[2]] = 0
                /\ UNCHANGED <<conns, connSt, connCancelled, connUuid, connReq,
                               wg, notified, kicked>>
          /\ ReplyReceived(a) /\ areq[a].op = "list" => ares'[a] = loopRes
      ]_vars

\* C4 witness: a list call has returned an item although one connection was
\* closed and another was kicked, or two items
C4_Witness ==
    \E a \in ApiCallers :
        /\ apc[a] = "return" /\ areq[a].op = "list"
        /\ \/ Cardinality(ares[a].items) = 2
           \/ /\ Cardinality(ares[a].items) = 1
              /\ \E c \in ConnIds : c \in notified \/ kicked[c] = 1

\* the shutdown is complete: run() has returned and closed done, every
\* connection has finished, no close() is waiting
ShutdownComplete ==
    /\ DoneClosed
    /\ muxClosed
    /\ \A c \in ConnIds : connSt[c] # "running"
    /\ closerPc # "waitDone"

\* the steps of the server, its handlers and its connections that need no
\* new request: replies, returns through s.ctx.Done(), the shutdown sequence
ShutdownStep ==
    \/ LoopReplyNew
    \/ LoopReplyApi
    \/ LoopBreak
    \/ LoopPoolClosed
    \/ LoopWgDone
    \/ LoopReturn
    \/ CloseReturn
    \/ \E h \in Handlers : HandlerTerminated(h) \/ HandlerWaitDone(h)
    \/ \E c \in ConnIds : ConnCloseTerminated(c)
    \/ \E a \in ApiCallers : ApiTerminated(a) \/ ApiReturn(a)

\* what is left to do before the shutdown is complete
LoopRank ==
    CASE loopPc = "select" -> 5
      [] LoopReplying -> 6
      [] loopPc = "poolClose" -> 3
      [] loopPc = "wgWait" -> 2
      [] loopPc = "return" -> 1
      [] OTHER -> 0

\* a handler has at most two steps left, an API caller three, a running
\* connection one, the caller of close() one
ShutdownRank ==
    LoopRank
    + Cardinality({h \in Handlers : hpc[h] \in {"newConn", "waitRes", "wait"}})
    + Cardinality({h \in Handlers : hpc[h] = "waitRes"})
    + Cardinality({a \in ApiCallers : apc[a] \in {"select", "waitRes", "return"}})
    + Cardinality({a \in ApiCallers : apc[a] \in {"select", "waitRes"}})
    + Cardinality({a \in ApiCallers : apc[a] = "waitRes"})
    + Cardinality({c \in ConnIds : connSt[c] = "running"})
    + (IF closerPc = "waitDone" THEN 1 ELSE 0)

\* C5: once s.ctx is cancelled the shutdown goes through, whatever requests
\* are pending: until it is complete one of the steps above is enabled, each
\* of them brings the completion nearer, and the context stays cancelled;
\* done is closed only after every handler and every connection has finished
C5_ShutdownCompletes ==
    /\ [](ctxDone /\ ~ShutdownComplete => ENABLED ShutdownStep)
    /\ [](DoneClosed =>
             /\ \A c \in ConnIds : connSt[c] # "running"
             /\ \A h \in Handlers : hpc[h] = "idle")
    /\ [][/\ ctxDone => ctxDone'
          /\ ctxDone /\ ShutdownStep => ShutdownRank' < ShutdownRank
         ]_vars

\* C5 witness: close() has returned after a shutdown that found a
\* connection running, a newConn and an API request pending
C5_Witness ==
    /\ ShutdownComplete
    /\ closerPc = "returned"
    /\ \E c \in ConnIds : connSt[c] = "finished" /\ c \in conns

\* a call apiConnsKick(id) made after a call with the same id returned
\* success has its answer
RekickReturns(a) ==
    apc[a] = "return" /\ areq[a].op = "kick" /\ areq[a].afterKick

\* C12 as claimed: once apiConnsKick(id) has returned success, every later
\* apiConnsKick(id) returns "not found", and the kick case calls close() on
\* a connection at most once
C12_KickIdempotent ==
    /\ \A a \in ApiCallers : RekickReturns(a) => ares[a].err = "not found"
    /\ \A c \in ConnIds : kicked[c] <= 1

\* C12 amended: once apiConnsKick(id) has returned success, no later
\* apiConnsKick(id) succeeds: it returns "not found", or "terminated" once
\* the server context is cancelled; the kick case calls close() on a
\* connection at most once, and only the first kick of its id does it
C12_RekickNeverSucceeds ==
    /\ \A a \in ApiCallers :
          RekickReturns(a) =>
              /\ ares[a].err \in {"not found", "terminated"}
              /\ ares[a].err = "terminated" => ctxDone
    /\ \A c \in ConnIds : kicked[c] <= 1
    /\ \A a \in ApiCallers :
          apc[a] = "waitRes" /\ areq[a].op = "kick" /\ areq[a].afterKick
              => loopRes.err = "not found"

\* C12 witness: the second kick of a connection has returned "not found"
\* while another connection, created meanwhile, is registered and open
C12_Witness ==
    \E a \in ApiCallers, c \in ConnIds, d \in ConnIds :
        /\ RekickReturns(a) /\ ares[a].err = "not found"
        /\ connUuid[c] = areq[a].id /\ kicked[c] = 1
        /\ d > c /\ d \in conns /\ ~connCancelled[d] /\ kicked[d] = 0

\* the connections run() created and for which it has processed neither a
\* close notification nor a successful kick
Registered == {c \in Created : c \notin notified /\ kicked[c] = 0}

\* C13: the registry s.conns holds exactly the connections that were
\* created and for which neither a close notification nor a successful kick
\* has been processed; the connection newConn returns to its caller is in
\* the registry when it is handed over; the close notification of a
\* connection takes it out of the registry and, when the connection is no
\* longer there (it was kicked), leaves the registry as it is
C13_RegistryExact ==
    /\ [](conns = Registered)
    /\ [](loopPc = "replyNew" => loopRes.conn \in conns)
    /\ [][/\ \A h \in Handlers :
                hconn'[h] # hconn[h] /\ hconn'[h] # NoConn =>
                    hconn'[h] \in conns /\ hconn'[h] \in conns'
          /\ \A c \in ConnIds :
                c \in notified' /\ c \notin notified =>
                    /\ conns' = conns \ {c}
                    /\ c \notin conns => conns' = conns
                    /\ UNCHANGED <<connUuid, connReq, kicked, loopPc, loopRes,
                                   hpc, hconn, apc, ares>>
         ]_vars

\* C13 witness: the close notification of a kicked connection has been
\* processed, and a connection created before it is still registered and
\* held by its handler
C13_Witness ==
    \E c \in ConnIds, d \in ConnIds, h \in Handlers :
        /\ kicked[c] = 1 /\ c \in notified /\ c \notin conns
        /\ d < c /\ conns = {d} /\ hconn[h] = d /\ connSt[d] = "running"

\* run() has left its select loop: it is in the shutdown sequence or over
LoopLeft == loopPc \in {"poolClose", "wgWait", "return", "done"}

Running == {c \in ConnIds : connSt[c] = "running"}

\* C14: the wait group counts the connections that have not finished; the
\* mux listeners are closed only after every connection created has
\* finished; done is closed after that, and close() returns only after done
\* is closed; once run() has left its select loop no connection is created,
\* registered or added to the wait group
C14_ShutdownOrdering ==
    /\ [](wg = Cardinality(Running))
    /\ [](muxClosed => Running = {} /\ LoopLeft /\ httpClosed)
    /\ [](DoneClosed => muxClosed /\ Running = {})
    /\ [](closerPc = "returned" => DoneClosed)
    /\ [][LoopLeft =>
             /\ LoopLeft'
             /\ Created' = Created
             /\ conns' = conns
             /\ wg' <= wg
         ]_vars

\* C14 witness: close() has returned, as many connections as the loop may
\* create were created, all have finished, and one of them left through
\* the cancelled context without a close notification
C14_Witness ==
    /\ closerPc = "returned"
    /\ muxClosed
    /\ Cardinality(Created) = MaxConns
    /\ Running = {}
    /\ \E c \in conns : c \notin notified /\ connSt[c] = "finished"

(***************************************************************************)
(* Claims about onRequest.                                                 *)
(***************************************************************************)
Challenge == <<"WWW-Authenticate", <<"Basic realm=\"mediamtx\"">> >>

AuthFailedNoCredentials ==
    /\ rstage = "served"
    /\ CallsGetPathConf(rq)
    /\ rres.err = "pathErrAuth"
    /\ ~rq.hasCredentials

\* C6: when getPathConf fails with an authentication error and the request
\* carried no Basic credentials, onRequest answers 401 with a
\* WWW-Authenticate Basic challenge and builds no connection.
C6_ChallengeWithoutCredentials ==
    AuthFailedNoCredentials =>
        /\ rout.status = StatusUnauthorized
        /\ Challenge \in rout.headers
        /\ ~rout.conn.present

\* a websocket request without credentials was refused with the challenge
C6_Witness ==
    /\ AuthFailedNoCredentials
    /\ ParsePath(rq.url).fname = "publish/ws"
    /\ rout.status = StatusUnauthorized

\* getPathConf failed for the request of slot i, and not with an
\* authentication error on a request without credentials
FailsOtherwise(i) ==
    /\ pstage[i] = "served"
    /\ pres[i].err # "nil"
    /\ ~(pres[i].err = "pathErrAuth" /\ ~prq[i].hasCredentials)

\* C7 as the specification states it: every other failure of getPathConf
\* (authentication error with credentials, path that does not resolve) is
\* answered with the not-found code, the same for both cases.
C7_SameCodeForBothFailures ==
    \A i, j \in Slots :
        FailsOtherwise(i) /\ FailsOtherwise(j) =>
            /\ pout[i].status = StatusNotFound
            /\ pout[j].status = pout[i].status

\* C7, amended: an authentication error on a request with credentials is
\* answered 401 without a challenge, a path that does not resolve is
\* answered 404; neither builds a connection.
C7_FailureCodes ==
    \A i \in Slots :
        FailsOtherwise(i) =>
            /\ ~pout[i].conn.present
            /\ Challenge \notin pout[i].headers
            /\ pres[i].err = "pathErrAuth" => pout[i].status = StatusUnauthorized
            /\ pres[i].err # "pathErrAuth" => pout[i].status = StatusNotFound

\* a refused request with credentials next to a request on a missing path
C7_Witness ==
    /\ FailsOtherwise(1) /\ FailsOtherwise(2)
    /\ prq[1].url = prq[2].url
    /\ pres[1].err = "pathErrAuth" /\ pout[1].status = StatusUnauthorized
    /\ pres[2].err = "other" /\ pout[2].status = StatusNotFound

AuthFails(i) == pstage[i] = "served" /\ pres[i].err = "pathErrAuth"

\* C8: two requests that both fail authentication and agree on whether
\* they carried credentials receive the same response (status, headers,
\* body); the reason of the failure appears in the log line only.
C8_AuthFailuresIndistinguishable ==
    \A i, j \in Slots :
        AuthFails(i) /\ AuthFails(j)
            /\ prq[i].hasCredentials = prq[j].hasCredentials =>
                /\ Wire(pout[i]) = Wire(pout[j])
                /\ pout[i].logged # <<>> =>
                      pout[i].logged[Len(pout[i].logged)] = pres[i].wrapped

\* two requests with credentials, on different URLs, refused for different
\* reasons, and the log lines tell the reasons apart
C8_Witness ==
    /\ AuthFails(1) /\ AuthFails(2)
    /\ prq[1].hasCredentials /\ prq[2].hasCredentials
    /\ prq[1].url # prq[2].url
    /\ pres[1].wrapped # pres[2].wrapped
    /\ pout[1].logged # pout[2].logged

\* getPathConf returned the configuration: the request is authorized
Authorized ==
    /\ rstage = "served"
    /\ rq.method = "GET"
    /\ rres.err = "nil"

ServesPage(page, name, publish) ==
    /\ rout.status = StatusOK
    /\ rout.body = page
    /\ rout.conf = [present |-> TRUE, name |-> name, publish |-> publish]
    /\ ~rout.conn.present

CreatesConn(name, publish) ==
    /\ rout.conf = [present |-> TRUE, name |-> name, publish |-> publish]
    /\ rout.conn = [present |-> TRUE, pathName |-> name, publish |-> publish]

\* a path name made of words other than "publish" and "ws"
PlainPath(p) ==
    /\ Len(p) % 2 = 1
    /\ \A n \in 1..Len(p) :
          IF n % 2 = 1 THEN p[n] \in Words \ {"publish", "ws"} ELSE p[n] = Slash

\* a path name as the code accepts it: not empty, not ending with "/"
IsPathName(p) == p # <<>> /\ p[Len(p)] # Slash

\* C10 as the specification states it: for an authorized GET request,
\* /<path>/ serves the read page, /<path>/publish/ serves the publish page
\* and is authorized as a publish request, /<path>/ws creates a reading
\* connection and /<path>/publish/ws a publishing connection (the
\* websocket upgrade succeeding).
C10_UrlClassification ==
    Authorized =>
        \A k \in 2..Len(rq.url) :
            LET p == SubSeq(rq.url, 2, k)
                tail == SubSeq(rq.url, k + 1, Len(rq.url))
            IN  PlainPath(p) =>
                    /\ tail = <<Slash>> => ServesPage("webrtcReadIndex", p, FALSE)
                    /\ tail = <<Slash, "publish", Slash>> =>
                          ServesPage("webrtcPublishIndex", p, TRUE)
                    /\ tail = SufWs /\ rws => CreatesConn(p, FALSE)
                    /\ tail = SufPublishWs /\ rws => CreatesConn(p, TRUE)

\* C10, amended: for an authorized GET request the longest suffix decides.
\* /<path>/publish/ws is authorized as publish and creates a publishing
\* connection on <path>; /<path>/publish (no trailing slash) is authorized
\* as publish and serves the publish page; /<path>/ws, <path> not ending
\* with /publish, is authorized as read and creates a reading connection;
\* /<path>/ is authorized as read and serves the read page, so that
\* /<path>/publish/ serves the read page of the path <path>/publish.  A
\* connection is created only when the websocket upgrade succeeds.
C10_UrlClassificationBySuffix ==
    Authorized =>
        \A k \in 2..Len(rq.url) :
            LET p == SubSeq(rq.url, 2, k)
                tail == SubSeq(rq.url, k + 1, Len(rq.url))
                conf(publish) == [present |-> TRUE, name |-> p, publish |-> publish]
            IN  IsPathName(p) =>
                    /\ tail = SufPublishWs =>
                          /\ rout.conf = conf(TRUE)
                          /\ IF rws THEN CreatesConn(p, TRUE) ELSE ~rout.conn.present
                    /\ tail = SufPublish => ServesPage("webrtcPublishIndex", p, TRUE)
                    /\ tail = SufWs /\ ~HasSuffix(p, SufPublish) =>
                          /\ rout.conf = conf(FALSE)
                          /\ IF rws THEN CreatesConn(p, FALSE) ELSE ~rout.conn.present
                    /\ tail = <<Slash>> => ServesPage("webrtcReadIndex", p, FALSE)

\* /a/publish/ was authorized as a read of the path a/publish and got the
\* read page
C10_Witness ==
    /\ Authorized
    /\ rq.url = <<Slash, "a", Slash, "publish", Slash>>
    /\ ServesPage("webrtcReadIndex", <<"a", Slash, "publish">>, FALSE)

\* C11: a webRTCConnNewReq is built and sent on connNew only by a request
\* for which getPathConf was called and returned the configuration, and
\* that call was made for the path and the role (publish or read) of the
\* connection; a request for which getPathConf failed, with an
\* authentication error or because the path does not resolve, and a request
\* for which it was not called, send nothing on connNew.
C11_ConnOnlyAfterAuthorization ==
    rstage = "served" =>
        /\ rout.conn.present =>
              /\ CallsGetPathConf(rq)
              /\ rres.err = "nil"
              /\ rout.conf = [present |-> TRUE, name |-> rout.conn.pathName,
                              publish |-> rout.conn.publish]
        /\ rres.err \in {"pathErrAuth", "other"} => ~rout.conn.present
        /\ ~CallsGetPathConf(rq) => ~rout.conn.present

\* GET /a/publish/ws was authorized as a publish request on the path a and
\* sent its webRTCConnNewReq
C11_Witness ==
    /\ rstage = "served"
    /\ rres.err = "nil"
    /\ rout.conf = [present |-> TRUE, name |-> <<"a">>, publish |-> TRUE]
    /\ rout.conn = [present |-> TRUE, pathName |-> <<"a">>, publish |-> TRUE]

(***************************************************************************)
(* Claims about the fMP4 client processor.                                 *)
(***************************************************************************)
\* C9: the base time of the first subpart is the zero of the timeline, and
\* the rebased base time of every subpart is its original base time minus
\* that first base time and lies in [0, 2^(width-1)): the unsigned
\* subtraction never wraps around.
C9_RebaseNeverWraps ==
    \A n \in 1..Len(rebased) :
        /\ rebased[n] = subparts[n].baseTime - startBaseTime
        /\ rebased[n] \in HalfRange

\* subparts handed to the track processor and not yet reported processed:
\* those in its queue, and the one whose completion signal it is sending
InFlight == Len(vqueue) + (IF vpc = "signal" THEN 1 ELSE 0)

\* C15: segments are handled one after another.  Of the subparts
\* processSegment has enqueued, each is in flight, or its completion signal
\* was received, or (after cancellation only) its signal was given up; the
\* second loop receives one signal at a time, each sent by the track
\* processor for one subpart; processSegment returns nil only when it has
\* received as many signals as it enqueued subparts, and then nothing is
\* in flight: when run() pulls the next segment the queue is empty and no
\* completion signal is pending, so no subpart of the next segment is
\* enqueued before the subparts of this one were reported processed
C15_SegmentsOneAtATime ==
    /\ [](processingCount = Len(enqueued["video"]) + Len(enqueued["audio"]))
    /\ [](processingCount >= InFlight + waited)
    /\ [](~fctxDone => processingCount = InFlight + waited)
    /\ [](fpc \in {"loop", "enqueue"} => waited = 0)
    /\ [](fpc = "pull" => InFlight = 0 /\ ferr = "")
    /\ [][/\ waited' = waited + 1 => vpc = "signal" /\ vpc' = "recv"
          /\ waited' \in {waited, waited + 1, 0}
          /\ fpc = "wait" /\ fpc' = "pull" =>
                /\ waited = processingCount
                /\ InFlight = 0
          /\ Len(vqueue') > Len(vqueue) =>
                /\ fpc = "enqueue"
                /\ InFlight <= processingCount
                /\ processingCount' = processingCount + 1
         ]_vars

\* C15 witness: the second segment had two subparts enqueued and both
\* completion signals were received; the clock was started by the first
\* segment
C15_Witness ==
    /\ fsegs = 2
    /\ startRTC["video"] = 2
    /\ fpc = "wait"
    /\ processingCount = 2
    /\ waited = 2
    /\ ~fctxDone

\* run() has returned and the track processor, if there is one, too
FmpFinished == fpc = "returned" /\ vpc \in {"none", "returned"}

\* the steps of the processor and of its track processor
FmpWork ==
    \/ RunPull
    \/ RunPullMalformed
    \/ RunPullTerminated
    \/ ProcessSubpart
    \/ Enqueue
    \/ EnqueueTerminated
    \/ LoopEnd
    \/ WaitSubpartProcessed
    \/ WaitTerminated
    \/ SegmentDone
    \/ TrackProcess
    \/ SubpartProcessedTerminated
    \/ TrackReturn

\* steps run() has left at most in the segment it is processing
RunRank ==
    CASE fpc = "pull" -> 1
      [] fpc = "loop" -> 3 * (Len(subparts) - Len(rebased)) + processingCount + 3
      [] fpc = "enqueue" -> 3 * (Len(subparts) - Len(rebased)) + processingCount + 5
      [] fpc = "wait" -> processingCount - waited + 2
      [] OTHER -> 0

\* steps the track processor has left at most with what is in its queue
TrackRank ==
    CASE vpc = "recv" -> 2 * Len(vqueue) + 1
      [] vpc = "signal" -> 2 * Len(vqueue) + 2
      [] OTHER -> 0

\* what is left before every task of the processor has returned; a segment
\* still to be pulled weighs more than the processing of a segment
FmpRank ==
    3 * RunRank + TrackRank + (9 * MaxSubparts + 10) * (MaxSegments - fsegs)

\* C16: once the context is cancelled no task of the processor stays
\* blocked.  processSegment waiting to enqueue a subpart or waiting for a
\* completion signal can return through ctx.Done(), and when it returns
\* from there it returns "terminated"; the track processor waiting in
\* onSubpartProcessed can return from it; run() waiting for a segment can
\* return; run() returns with an error only, and "terminated" only after
\* the cancellation; until every task has returned a step is enabled, and
\* every step brings the end nearer, whatever is in flight
C16_CancellationUnblocks ==
    /\ [](fctxDone /\ fpc = "enqueue" => ENABLED EnqueueTerminated)
    /\ [](fctxDone /\ fpc = "wait" /\ waited < processingCount
             => ENABLED WaitTerminated)
    /\ [](fctxDone /\ vpc = "signal" => ENABLED SubpartProcessedTerminated)
    /\ [](fctxDone /\ fpc = "pull" => ENABLED RunPullTerminated)
    /\ [](fctxDone /\ ~FmpFinished => ENABLED FmpWork)
    /\ [](fpc = "returned" =>
             /\ ferr \in {"terminated", "PartRead"}
             /\ ferr = "terminated" => fctxDone)
    /\ [][/\ fctxDone => fctxDone'
          /\ fpc \in {"enqueue", "wait"} /\ fpc' = "returned" =>
                fctxDone /\ ferr' = "terminated"
          /\ fctxDone => FmpRank' < FmpRank
         ]_vars

\* C16 witness: every task has returned, run() with "terminated" from the
\* second loop of processSegment, while a subpart was still in the queue
\* of the track processor
C16_Witness ==
    /\ fctxDone
    /\ FmpFinished
    /\ ferr = "terminated"
    /\ waited < processingCount
    /\ Len(rebased) = Len(subparts)
    /\ vqueue # <<>>

\* the track processor registered for the track of a subpart, "none" when
\* there is none
ProcOf(track) ==
    IF initVideoTrack /\ track.id = VideoID THEN "video"
    ELSE IF initAudioTrack /\ track.id = AudioID THEN "audio"
    ELSE "none"

\* the subparts of the segment that belong to the track of processor t, by
\* their index, in the order of the segment
SubpartsOf(t) ==
    SelectSeq([n \in 1..Len(subparts) |-> n],
              LAMBDA n : ProcOf(subparts[n]) = t)

\* C17: when the first loop of processSegment is over, the queue of each
\* registered track processor (video, audio) has received every subpart of
\* its track exactly once and in the order of the segment, and nothing
\* else; subparts of an unknown track were sent nowhere.
C17_EverySubpartEnqueued ==
    fpc = "wait" => \A t \in Procs : enqueued[t] = SubpartsOf(t)

\* the same for the video track alone
VideoSubpartsEnqueued ==
    fpc = "wait" => enqueued["video"] = SubpartsOf("video")

\* the start time a track processor holds: that of the clock if the
\* processor exists, none otherwise
StartTimesAgree(now) ==
    /\ startRTC["video"] = (IF initVideoTrack THEN now ELSE 0)
    /\ startRTC["audio"] = (IF initAudioTrack THEN now ELSE 0)

\* C18: the clock is started exactly once.  Until a subpart has been
\* processed nothing is set; the first subpart processed, of whatever
\* segment, sets startBaseTime to its base time and gives the wall-clock
\* time of that moment to every track processor that exists, the same to
\* both; after that clockInitialized, startBaseTime and the start times
\* never change, for any later subpart or segment
C18_ClockInitializedOnce ==
    /\ [](~clockInitialized =>
             /\ rebased = <<>>
             /\ startBaseTime = 0
             /\ StartTimesAgree(0))
    /\ [](clockInitialized => \E now \in 2..fnow : StartTimesAgree(now))
    /\ [][/\ clockInitialized =>
                UNCHANGED <<clockInitialized, startBaseTime, startRTC>>
          /\ ~clockInitialized /\ rebased' # rebased /\ fpc = "loop" =>
                /\ clockInitialized'
                /\ startBaseTime' = subparts[1].baseTime
                /\ rebased' = <<0>>
                /\ StartTimesAgree(fnow)'
          /\ ~clockInitialized /\ clockInitialized' =>
                rebased = <<>> /\ Len(rebased') = 1
         ]_vars

\* C18 witness: the first segment was empty, the first subpart of the
\* second one started the clock with base time 1 for both track
\* processors, and a second subpart with another base time left it as it
\* was
C18_Witness ==
    /\ initVideoTrack /\ initAudioTrack
    /\ fsegs = 2
    /\ Len(rebased) = 2
    /\ subparts[1].baseTime = 1
    /\ subparts[2].baseTime = 0
    /\ startBaseTime = 1
    /\ StartTimesAgree(3)

(***************************************************************************)
(* Claims about newWebRTCServer.                                           *)
(***************************************************************************)
\* C19: when newWebRTCServer returns an error, whichever call failed, no
\* listener it opened is left open (each was never opened, or was closed)
\* and go s.run() was not executed.
C19_ErrorClosesListeners ==
    nstage = "returned" /\ nres.err # "nil" =>
        /\ nres.ln # "open"
        /\ nres.udpMuxLn # "open"
        /\ nres.tcpMuxLn # "open"
        /\ ~nres.running

\* the same for the failure of tls.LoadX509KeyPair alone
KeyPairErrorClosesListener ==
    nstage = "returned" /\ nres.err = "tls.LoadX509KeyPair" =>
        nres.ln = "closed" /\ ~nres.running

=============================================================================
